---- MODULE Spec2Model ----
(***************************************************************************)
(* Model of devops_ai/ui/tool_handlers.py: the ToolHandlers adapter of the *)
(* DevOps AI dashboard.  One action per method.  The dashboard is          *)
(* single-threaded, so a method runs to completion in one step; the order  *)
(* of what it does inside the step (prompt, progress updates, engine call) *)
(* is kept in `log`, the event list of the latest call.                    *)
(*                                                                         *)
(* Text is a sequence of one-character strings; a fixed literal of the     *)
(* source is a single token.  Titles are written without their icons.      *)
(***************************************************************************)
EXTENDS Integers, Sequences, FiniteSets, TLC

VARIABLES github_repo_url,  \* self.github_repo_url
          local_repo_path,  \* self.local_repo_path
          fs,               \* the paths that exist on disk (os.path.exists)
          call,             \* the method called last
          typed,            \* what the user typed at the prompt of the latest call
          log,              \* the prompt, progress and engine events of the latest call, in order
          clone,            \* the git clone the latest call ran, with its outcome
          engine_call,      \* the engine method the latest call invoked: arguments and outcome
          ret,              \* how the latest call ended: a returned pair or a raised exception
          cloned            \* history: the paths this session cloned successfully

vars == <<github_repo_url, local_repo_path, fs, call, typed, log, clone, engine_call,
          ret, cloned>>

----------------------------------------------------------------------------
(* Bounds and input sets *)

MaxUrlLen == 2

SeqsUpTo(S, n) == UNION {[1..k -> S] : k \in 0..n}

UrlChars == {"/", "a"}
Urls == SeqsUpTo(UrlChars, MaxUrlLen)

Whitespace == {" ", "\n"}
\* the strings an engine method returns: empty, blank, and two with content
Texts == {<<>>, <<" ", "\n">>, <<"x">>, <<" ", "x">>}
\* the messages of the exceptions an engine method raises
Messages == {<<"m">>}

\* what the user types at a console.input prompt
Inputs == {<<>>, <<"x">>}

\* Python's None, a value that is no text of the model
None == <<"None">>
\* a keyword argument the call does not pass
Absent == <<"absent">>

\* os.getcwd()
Cwd == <<"/", "w">>

----------------------------------------------------------------------------
(* Text functions *)

\* str.rstrip('/')
RECURSIVE RStrip(_)
RStrip(s) ==
    IF s # <<>> /\ s[Len(s)] = "/" THEN RStrip(SubSeq(s, 1, Len(s) - 1)) ELSE s

\* str.split('/')[-1]: what follows the last '/'
RECURSIVE LastSegment(_)
LastSegment(s) ==
    IF s = <<>> \/ s[Len(s)] = "/" THEN <<>>
    ELSE Append(LastSegment(SubSeq(s, 1, Len(s) - 1)), s[Len(s)])

\* repo_name = github_repo_url.rstrip('/').split('/')[-1]
RepoName(url) == LastSegment(RStrip(url))

\* os.path.join(a, b) of posixpath
Join(a, b) ==
    IF b # <<>> /\ b[1] = "/" THEN b
    ELSE IF a = <<>> \/ a[Len(a)] = "/" THEN a \o b
    ELSE a \o <<"/">> \o b

\* local_repo_path = os.path.join(os.getcwd(), repo_name)
LocalPath(url) == Join(Cwd, RepoName(url))

\* os.path.exists(path): a trailing slash names the directory itself
Exists(path, files) == path \in files \/ RStrip(path) \in files

\* str.strip()
RECURSIVE LStrip(_)
LStrip(s) ==
    IF s # <<>> /\ s[1] \in Whitespace THEN LStrip(SubSeq(s, 2, Len(s))) ELSE s

RECURSIVE RStripSpace(_)
RStripSpace(s) ==
    IF s # <<>> /\ s[Len(s)] \in Whitespace
    THEN RStripSpace(SubSeq(s, 1, Len(s) - 1)) ELSE s

Strip(s) == LStrip(RStripSpace(s))

\* truth value of a session field: None and "" are false
Truthy(v) == v # None /\ v # <<>>

----------------------------------------------------------------------------
(* The progress bar and the event list of a call *)

Total == 100
Advance == 50

Ev(op, done) == [op |-> op, done |-> done]

\* completed amount of the task after the events of l
Completed(l) == IF l = <<>> THEN 0 ELSE l[Len(l)].done

\* console.input(...)
Input(l) == Append(l, Ev("input", Completed(l)))
\* progress.add_task(..., total=100)
AddTask(l) == Append(l, Ev("add_task", 0))
\* progress.update(task, advance=n)
Update(l, n) == Append(l, Ev("advance", Completed(l) + n))
\* self.devops_tools._xxx(...)
Invoke(l) == Append(l, Ev("engine", Completed(l)))

----------------------------------------------------------------------------
(* The collaborators: git and the analysis engine *)

Stdouts == {<<"o">>}
Stderrs == {<<"e">>}

\* subprocess.run(["git", "clone", ...], capture_output=True, text=True, check=True):
\* it returns (exit status 0, the directory exists), raises CalledProcessError
\* (non-zero exit; git may or may not leave the directory behind), or raises
\* an OSError because git could not be started.
CloneOutcomes ==
    [kind : {"ok"}, stdout : Stdouts, stderr : Stderrs, created : {TRUE}]
    \cup [kind : {"CalledProcessError"}, stdout : Stdouts, stderr : Stderrs,
          created : BOOLEAN]
    \cup [kind : {"OSError"}, stdout : {<<>>}, stderr : {<<>>}, created : {FALSE}]

\* an engine method returns a string or raises an exception with a message
EngineOutcomes ==
    [kind : {"ok"}, val : Texts]
    \cup [kind : {"AttributeError", "Exception"}, val : Messages]

NoOutcome == [kind |-> "none", val |-> <<>>]
NoCall == [method |-> "none", arg |-> Absent, repo_path |-> Absent,
           generate_iac |-> FALSE, out |-> NoOutcome]
\* self.devops_tools.<method>(arg), ending in out
Call1(method, arg, out) ==
    [method |-> method, arg |-> arg, repo_path |-> Absent, generate_iac |-> FALSE,
     out |-> out]
\* self.devops_tools._infra_suggest(context=..., [repo_path=...,] generate_iac=True)
InfraCall(context, repo_path, out) ==
    [method |-> "_infra_suggest", arg |-> context, repo_path |-> repo_path,
     generate_iac |-> TRUE, out |-> out]

\* no git clone was run
NoClone == [kind |-> "none", stdout |-> <<>>, stderr |-> <<>>, created |-> FALSE]

NoRet == [kind |-> "none", result |-> <<>>, title |-> <<>>, exc |-> "none"]
\* return result, title
Return(result, title) == [kind |-> "return", result |-> result, title |-> title,
                          exc |-> "none"]
\* an exception leaves the method
Raise(exc) == [kind |-> "raise", result |-> <<>>, title |-> <<>>, exc |-> exc]

----------------------------------------------------------------------------
(* Conditions and expressions of the methods *)

\* variant: the existence test is dropped and every call clones
NeedsCloneAlways(path, files) == TRUE

\* if not os.path.exists(local_repo_path)
NeedsClone(path, files) == ~Exists(path, files)

\* variant: no except clause around subprocess.run
CloneCaughtNever(kind) == FALSE

\* except subprocess.CalledProcessError
CloneCaught(kind) == kind = "CalledProcessError"

\* result.stdout + "\n" + result.stderr, and the same of the caught error
CloneOutput(run) == run.stdout \o <<"\n">> \o run.stderr

\* variant: the guard tests `is None` and lets the empty URL through
RepoMissingNoneOnly(url) == url = None

\* if not self.github_repo_url
RepoMissing(url) == ~Truthy(url)

\* the first component of the tuple returned when the URL is missing
MissingRepoMsg == <<"GitHub repository URL not set. Please restart or set it.">>

\* variant: the branch tests `is not None` and takes the empty URL for a repository
InfraUsesRepoNotNone(url) == url # None

\* infrastructure: if self.github_repo_url
InfraUsesRepo(url) == Truthy(url)

\* variant: the narrow except clause of git_ingest
InfraCaughtAttributeOnly(kind) == kind = "AttributeError"

\* infrastructure: except Exception
InfraCaught(kind) == kind \in {"AttributeError", "Exception"}

\* infrastructure: the f-string substituted for a caught exception
InfraError(msg) ==
    <<"Error generating infrastructure suggestions: ">> \o msg
    \o <<"\n", "Please try again or provide more specific context.">>

NoSuggestions ==
    <<"No infrastructure suggestions could be generated. Please try again with a different repository or more specific context.">>

\* variant: the final check is missing
EnsureNonEmptyDropped(result) == result

\* infrastructure: if not result or result.strip() == "": result = ...
EnsureNonEmpty(result) ==
    IF result = <<>> \/ Strip(result) = <<>> THEN NoSuggestions ELSE result

\* git_ingest: except AttributeError
GitIngestCaught == {"AttributeError"}

\* git_ingest: the f-string substituted for a caught AttributeError
UnderDevelopment(url) ==
    <<"Git ingest functionality for '">> \o url \o <<"' is under development.">>

\* variant: the second progress.update is missing
WithProgressOnce(l, out, caught) == Invoke(Update(AddTask(l), Advance))

\* variant: the engine is called before the first progress.update
WithProgressEngineFirst(l, out, caught) ==
    LET called == Update(Invoke(AddTask(l)), Advance)
    IN  IF out.kind = "ok" \/ caught THEN Update(called, Advance) ELSE called

\* the body of a `with Progress(...) as progress:` block: add the task,
\* advance, call the engine, advance again unless an exception left the block
WithProgress(l, out, caught) ==
    LET called == Invoke(Update(AddTask(l), Advance))
    IN  IF out.kind = "ok" \/ caught THEN Update(called, Advance) ELSE called

----------------------------------------------------------------------------
(* The methods *)

Init ==
    /\ github_repo_url = None
    /\ local_repo_path = None
    /\ fs \in {{Cwd}, {Cwd, Join(Cwd, <<"a">>)}}
    /\ call = "none"
    /\ typed = None
    /\ log = <<>>
    /\ clone = NoClone
    /\ engine_call = NoCall
    /\ ret = NoRet
    /\ cloned = {}

set_repository ==
    \E url \in Urls, run \in CloneOutcomes :
        LET path == LocalPath(url) IN
        /\ call' = "set_repository"
        /\ github_repo_url' = url
        /\ typed' = None
        /\ log' = <<>>
        /\ engine_call' = NoCall
        /\ IF ~NeedsClone(path, fs)
           THEN /\ clone' = NoClone
                /\ local_repo_path' = path
                /\ ret' = Return(<<>>, path)
                /\ UNCHANGED <<fs, cloned>>
           ELSE /\ clone' = run
                /\ fs' = IF run.created THEN fs \cup {path} ELSE fs
                /\ cloned' = IF run.kind = "ok" THEN cloned \cup {path} ELSE cloned
                /\ IF run.kind = "ok" \/ CloneCaught(run.kind)
                   THEN /\ local_repo_path' = path
                        /\ ret' = Return(CloneOutput(run), path)
                   ELSE /\ local_repo_path' = local_repo_path
                        /\ ret' = Raise(run.kind)

\* variant: the prompting tools keep what was typed in self.local_repo_path
PromptToolStoresInput(method, title) ==
    \E input \in Inputs, out \in EngineOutcomes :
        /\ typed' = input
        /\ log' = WithProgress(Input(<<>>), out, FALSE)
        /\ engine_call' = Call1(method, input, out)
        /\ ret' = IF out.kind = "ok" THEN Return(out.val, title) ELSE Raise(out.kind)
        /\ clone' = NoClone
        /\ local_repo_path' = input
        /\ UNCHANGED <<github_repo_url, fs, cloned>>

\* a tool that prompts for one parameter and passes it to the engine
PromptTool(method, title) ==
    \E input \in Inputs, out \in EngineOutcomes :
        /\ typed' = input
        /\ log' = WithProgress(Input(<<>>), out, FALSE)
        /\ engine_call' = Call1(method, input, out)
        /\ ret' = IF out.kind = "ok" THEN Return(out.val, title) ELSE Raise(out.kind)
        /\ clone' = NoClone
        /\ UNCHANGED <<github_repo_url, local_repo_path, fs, cloned>>

\* a tool of the configured repository
RepoTool(method, arg, caught, substitute, errTitle, title) ==
    \E out \in EngineOutcomes :
        /\ typed' = None
        /\ IF RepoMissing(github_repo_url)
           THEN /\ log' = <<>>
                /\ engine_call' = NoCall
                /\ ret' = Return(MissingRepoMsg, errTitle)
           ELSE /\ log' = WithProgress(<<>>, out, out.kind \in caught)
                /\ engine_call' = Call1(method, arg, out)
                /\ ret' = IF out.kind = "ok" THEN Return(out.val, title)
                          ELSE IF out.kind \in caught THEN Return(substitute, title)
                          ELSE Raise(out.kind)
        /\ clone' = NoClone
        /\ UNCHANGED <<github_repo_url, local_repo_path, fs, cloned>>

\* no except clause around the engine call: nothing is caught
Uncaught == {}

analyze_logs ==
    /\ call' = "analyze_logs"
    /\ PromptTool("_analyze_logs", <<"Log Analysis Results">>)

infrastructure ==
    \E context \in Inputs, out \in EngineOutcomes :
        LET repo == InfraUsesRepo(github_repo_url)
            result == IF out.kind = "ok" THEN out.val ELSE InfraError(out.val)
        IN
        /\ call' = "infrastructure"
        /\ typed' = IF repo THEN None ELSE context
        /\ log' = WithProgress(IF repo THEN <<>> ELSE Input(<<>>), out,
                               InfraCaught(out.kind))
        /\ engine_call' = IF repo THEN InfraCall(<<>>, local_repo_path, out)
                          ELSE InfraCall(context, Absent, out)
        /\ ret' = IF out.kind = "ok" \/ InfraCaught(out.kind)
                  THEN Return(EnsureNonEmpty(result),
                              <<"Infrastructure Recommendations">>)
                  ELSE Raise(out.kind)
        /\ clone' = NoClone
        /\ UNCHANGED <<github_repo_url, local_repo_path, fs, cloned>>

security_scan ==
    /\ call' = "security_scan"
    /\ PromptTool("_security_scan", <<"Security Scan Results">>)

optimize ==
    /\ call' = "optimize"
    /\ PromptTool("_optimize", <<"Optimization Recommendations">>)

git_ingest ==
    /\ call' = "git_ingest"
    /\ RepoTool("_git_ingest", github_repo_url, GitIngestCaught,
                UnderDevelopment(github_repo_url),
                <<"Git Ingest Error">>, <<"Git Ingest Results">>)

code_quality ==
    /\ call' = "code_quality"
    /\ RepoTool("_code_quality", github_repo_url, Uncaught, <<>>,
                <<"Code Quality Error">>, <<"Code Quality Analysis">>)

dependency_check ==
    /\ call' = "dependency_check"
    /\ RepoTool("_dependency_check", github_repo_url, Uncaught, <<>>,
                <<"Dependency Check Error">>, <<"Dependency Check Results">>)

contributors ==
    /\ call' = "contributors"
    /\ RepoTool("_contributors", github_repo_url, Uncaught, <<>>,
                <<"Contributors Error">>, <<"Contributor Statistics">>)

docker_generation ==
    /\ call' = "docker_generation"
    /\ RepoTool("_docker_generation", local_repo_path, Uncaught, <<>>,
                <<"Docker Generation Error">>, <<"Docker Generation Results">>)

Next ==
    \/ set_repository
    \/ analyze_logs
    \/ infrastructure
    \/ security_scan
    \/ optimize
    \/ git_ingest
    \/ code_quality
    \/ dependency_check
    \/ contributors
    \/ docker_generation

Spec == Init /\ [][Next]_vars

----------------------------------------------------------------------------
(* Vocabulary of the properties *)

RepoScoped == {"git_ingest", "code_quality", "dependency_check", "contributors",
               "docker_generation"}
Prompting == {"analyze_logs", "security_scan", "optimize"}
Tools == RepoScoped \cup Prompting \cup {"infrastructure"}

ErrorTitle ==
    [git_ingest |-> <<"Git Ingest Error">>,
     code_quality |-> <<"Code Quality Error">>,
     dependency_check |-> <<"Dependency Check Error">>,
     contributors |-> <<"Contributors Error">>,
     docker_generation |-> <<"Docker Generation Error">>]

\* the positions of the events of one kind in the latest call
At(op) == {i \in DOMAIN log : log[i].op = op}
EngineCalls == Cardinality(At("engine"))
\* the latest call returned the missing-repository error tuple
MissingRepoTuple == ret.kind = "return" /\ ret.result = MissingRepoMsg
\* the engine raised in the latest call
EngineRaised == engine_call.out.kind \in {"AttributeError", "Exception"}

----------------------------------------------------------------------------
(* C1: a repo-scoped tool called while no repository URL is configured     *)
(* (None or the empty string) returns the 'GitHub repository URL not set'  *)
(* tuple with its own Error title, and the engine is not invoked.          *)
MissingUrlReturnsErrorTuple ==
    (call \in RepoScoped /\ (github_repo_url = None \/ github_repo_url = <<>>))
    => /\ ret = Return(MissingRepoMsg, ErrorTitle[call])
       /\ EngineCalls = 0
       /\ engine_call = NoCall

\* docker_generation after set_repository("") left the empty URL configured
MissingUrlWitness ==
    /\ call = "docker_generation"
    /\ github_repo_url = <<>>
    /\ local_repo_path # None
    /\ ret.title = <<"Docker Generation Error">>

(* C2: set_repository called while the local path derived from the URL     *)
(* exists runs no clone, returns the empty clone output and leaves the     *)
(* session fields at the URL and its derived path; after a successful      *)
(* clone of a path no later call clones it again, and a second call with   *)
(* the same URL right after the successful one changes neither field.      *)
CloneIsIdempotent ==
    [][call' = "set_repository" =>
         LET path == LocalPath(github_repo_url') IN
         /\ (Exists(path, fs) \/ path \in cloned) =>
               /\ clone' = NoClone
               /\ ret' = Return(<<>>, path)
               /\ github_repo_url' \in Urls
               /\ local_repo_path' = path
               /\ fs' = fs
         /\ (call = "set_repository" /\ clone.kind = "ok"
             /\ github_repo_url' = github_repo_url) =>
               /\ clone' = NoClone
               /\ local_repo_path' = local_repo_path]_vars

\* a set_repository call that skipped the clone of a path cloned earlier in the session
CloneSkippedWitness ==
    /\ call = "set_repository"
    /\ clone = NoClone
    /\ ret.result = <<>>
    /\ local_repo_path \in cloned
    /\ local_repo_path = LocalPath(github_repo_url)

(* C3 as stated: whatever the engine returns, the result a tool handler    *)
(* returns is a non-empty string.                                          *)
ResultAlwaysNonEmpty ==
    (call \in Tools /\ ret.kind = "return") => ret.result # <<>>

(* C3 amended: infrastructure returns a non-empty, non-blank result for    *)
(* every engine outcome, and the missing-repository tuples and the         *)
(* git_ingest substitute are non-empty; every other returned result is the *)
(* engine's string unchanged, empty exactly when the engine's string is.   *)
ResultNonEmptyWhereEnsured ==
    (call \in Tools /\ ret.kind = "return") =>
       /\ call = "infrastructure" => (ret.result # <<>> /\ Strip(ret.result) # <<>>)
       /\ (MissingRepoTuple \/ EngineRaised) => ret.result # <<>>
       /\ (call # "infrastructure" /\ engine_call.out.kind = "ok")
             => ret.result = engine_call.out.val

\* infrastructure replaced a blank engine string
ResultEnsuredWitness ==
    /\ call = "infrastructure"
    /\ engine_call.out = [kind |-> "ok", val |-> <<" ", "\n">>]
    /\ ret.result = NoSuggestions

(* C4: a step of any method other than set_repository, whether it returns  *)
(* a result, returns the guard tuple or lets an engine exception through,  *)
(* leaves github_repo_url and local_repo_path unchanged.                   *)
OnlySetRepositoryMutates ==
    [][call' # "set_repository" =>
         /\ github_repo_url' = github_repo_url
         /\ local_repo_path' = local_repo_path]_vars

\* a tool let an engine exception through while a repository was configured
ToolRaisedWitness ==
    /\ call \in Prompting
    /\ ret.kind = "raise"
    /\ github_repo_url = <<"a">>
    /\ local_repo_path = LocalPath(<<"a">>)

(* C5: infrastructure never lets an engine exception through: in either    *)
(* branch it returns the 'Error generating infrastructure suggestions'     *)
(* text built from the exception, under its normal title.                  *)
InfraCatchesEngineErrors ==
    call = "infrastructure" =>
       /\ ret.kind = "return"
       /\ ret.title = <<"Infrastructure Recommendations">>
       /\ EngineRaised => ret.result = InfraError(engine_call.out.val)

\* the repository branch caught an exception that is no AttributeError
InfraCaughtWitness ==
    /\ call = "infrastructure"
    /\ engine_call.out.kind = "Exception"
    /\ engine_call.repo_path = local_repo_path
    /\ ret.kind = "return"

(* C6 as stated: a call that starts a progress task advances it by 50      *)
(* before the engine call and by 50 after it, and ends with the task at    *)
(* 100 whatever the engine does.                                           *)
ProgressAlwaysComplete ==
    At("add_task") # {} =>
       /\ \A i \in At("engine") : log[i].done = Advance
       /\ Completed(log) = Total

(* C6 amended: the task is advanced by exactly 50 before the engine call;  *)
(* a call that returns advanced it by 50 once more and ends at 100, and a  *)
(* call left by an engine exception ends with the task at 50.              *)
ProgressCompleteOnReturn ==
    At("add_task") # {} =>
       /\ \A i \in At("engine") : log[i].done = Advance /\ log[i - 1].op = "advance"
       /\ ret.kind = "return" =>
             /\ Completed(log) = Total
             /\ Cardinality(At("advance")) = 2
             /\ log[Len(log)].op = "advance"
       /\ ret.kind = "raise" =>
             /\ Completed(log) = Advance
             /\ Cardinality(At("advance")) = 1

\* git_ingest returned after catching the engine's AttributeError
ProgressCompleteWitness ==
    /\ call = "git_ingest"
    /\ engine_call.out.kind = "AttributeError"
    /\ ret.kind = "return"
    /\ Completed(log) = Total

InfraBranchOnUrl ==
    call = "infrastructure" =>
       /\ IF github_repo_url # None /\ github_repo_url # <<>>
          THEN /\ At("input") = {}
               /\ typed = None
               /\ engine_call = InfraCall(<<>>, local_repo_path, engine_call.out)
          ELSE /\ At("input") = {1}
               /\ typed \in Inputs
               /\ engine_call = InfraCall(typed, Absent, engine_call.out)
       /\ EngineCalls = 1
       /\ ~MissingRepoTuple

\* the manual branch, taken because the configured URL is the empty string
InfraManualWitness ==
    /\ call = "infrastructure"
    /\ github_repo_url = <<>>
    /\ typed = <<"x">>
    /\ engine_call.arg = <<"x">>

(* C9: a clone that exits non-zero does not make set_repository fail: the  *)
(* call returns stdout + "\n" + stderr of the clone with the derived path, *)
(* both session fields are set as after a successful clone, and the next   *)
(* call with the same URL clones again if the path still does not exist.   *)
FailedCloneStillConfigures ==
    [][call' = "set_repository" =>
         LET path == LocalPath(github_repo_url') IN
         /\ clone'.kind = "CalledProcessError" =>
               /\ ret' = Return(clone'.stdout \o <<"\n">> \o clone'.stderr, path)
               /\ github_repo_url' \in Urls
               /\ local_repo_path' = path
         /\ (call = "set_repository" /\ clone.kind = "CalledProcessError"
             /\ github_repo_url' = github_repo_url /\ ~Exists(path, fs)) =>
               clone' # NoClone]_vars

\* set_repository returned after a failed clone that left no directory
FailedCloneWitness ==
    /\ call = "set_repository"
    /\ clone.kind = "CalledProcessError"
    /\ ~Exists(local_repo_path, fs)
    /\ ret.kind = "return"
    /\ local_repo_path = LocalPath(github_repo_url)

(* C10: whenever github_repo_url is set, local_repo_path is not None, so   *)
(* neither docker_generation nor the repository branch of infrastructure   *)
(* passes None to the engine.                                              *)
UrlImpliesLocalPath ==
    /\ (github_repo_url # None /\ github_repo_url # <<>>) => local_repo_path # None
    /\ call = "docker_generation" => engine_call.arg # None
    /\ call = "infrastructure" => engine_call.repo_path # None

====
